---- MODULE Spec2Model ----
(***************************************************************************)
(* DBHandler (src/src/dbhandler/handler.py): a handle on one SQLite file.  *)
(* The handle owns one connection; every public method runs statements on  *)
(* that connection and most end with connector.commit().                   *)
(*                                                                         *)
(* The store is modelled at the level the methods observe it: the catalog  *)
(* (sqlite_master, in rowid order) as a sequence of tables, each with its  *)
(* declared columns and its rows in rowid order.  Two copies are kept: the *)
(* view of the handle's connection (conn) and the committed file (disk);   *)
(* they differ only while the connection has an open transaction (inTxn).  *)
(*                                                                         *)
(* Values are encoded as numbers: 0 is NULL, 1..9 are the integers         *)
(* themselves, 10+n is the text made of the digits of n ("1" is 11) and    *)
(* 20 is the text "a", which is no number.  Numbers compare by value, as   *)
(* Python compares the fetched rows (1 == 1.0).                            *)
(***************************************************************************)
EXTENDS Integers, Sequences, FiniteSets, TLC

VARIABLES conn, disk, inTxn, call, result, ret

vars == <<conn, disk, inTxn, call, result, ret>>

\* ------------------------------------------------------------------ bounds
\* Most rows the store holds (a call that would exceed it is not issued).
MaxRows == 3

\* ------------------------------------------------------------------ values
Names == {"t", "u"}
\* The values a caller passes: 1, "1" and "a".
InputVals == {1, 11, 20}

IsNull(v) == v = 0
IsInt(v) == v \in 1..9
IsDigitText(v) == v \in 11..19
DigitText(n) == 10 + n
IntOf(v) == v - 10

\* The lists of rows of one value a caller passes: no row, one row, two rows.
RowLists ==
    {<<>>}
    \cup {<<<<v>>>> : v \in InputVals}
    \cup {<<<<v>>, <<w>>>> : v \in InputVals, w \in InputVals}

RECURSIVE SeqToSet(_)
SeqToSet(s) == IF s = <<>> THEN {} ELSE {Head(s)} \cup SeqToSet(Tail(s))

Count(s, x) == Cardinality({i \in 1..Len(s) : s[i] = x})

\* ------------------------------------------------------------------ engine
\* create_table's type_dict: Python type -> declared SQL type.
type_dict(pytype) ==
    CASE pytype = "int" -> "INTEGER"
      [] pytype = "float" -> "REAL"
      [] pytype = "str" -> "TEXT"
      [] pytype = "None" -> "NULL"

\* What a column of declared type `ty` stores for a bound value `v`: TEXT
\* turns numbers into text, INTEGER and REAL turn text that reads as a number
\* into that number, and "NULL" declares no type, so nothing is converted.
Affinity(ty, v) ==
    CASE IsNull(v) -> v
      [] ty = "TEXT" /\ IsInt(v) -> DigitText(v)
      [] ty \in {"INTEGER", "REAL"} /\ IsDigitText(v) -> IntOf(v)
      [] OTHER -> v

\* One row as the table stores it (positional, arity already checked).
StoreRow(cols, row) == [i \in 1..Len(cols) |-> Affinity(cols[i].ty, row[i])]

tablesOf(c) == [i \in 1..Len(c) |-> c[i].name]
Has(c, name) == \E i \in 1..Len(c) : c[i].name = name
IndexOf(c, name) == CHOOSE i \in 1..Len(c) : c[i].name = name
Table(c, name) == c[IndexOf(c, name)]

RECURSIVE Without(_, _)
Without(c, name) ==
    IF c = <<>> THEN <<>>
    ELSE IF Head(c).name = name THEN Without(Tail(c), name)
    ELSE <<Head(c)>> \o Without(Tail(c), name)

\* The state of the store as one record.
Db(c, d, x) == [conn |-> c, disk |-> d, inTxn |-> x]

\* A DDL statement (CREATE, DROP, ALTER) does not open a transaction: outside
\* one it is durable at once, inside one it waits for the commit.
ExecDDL(db, c) == IF db.inTxn THEN Db(c, db.disk, TRUE) ELSE Db(c, c, FALSE)

\* A DML statement (INSERT) opens a transaction when none is open.
ExecDML(db, c) == Db(c, db.disk, TRUE)

\* commit() left out: the transaction stays open.
commit_Skip(db) == db

commit(db) == Db(db.conn, db.conn, FALSE)

rollback(db) == Db(db.disk, db.disk, FALSE)

\* ------------------------------------------------------------------ pandas
\* A dataset (pd.DataFrame): its column names and its rows.
DataFrame(cols, rows) == [cols |-> cols, rows |-> rows]
NoData == DataFrame(<<>>, <<>>)

Outcome(db, res, r) == [db |-> db, result |-> res, ret |-> r]

Column(df, j) == [i \in 1..Len(df.rows) |-> df.rows[i][j]]

\* The SQL type DataFrame.to_sql declares for a column, from the values it
\* holds: integers give INTEGER (REAL once a missing value made the column
\* floating), anything else (text, a mix, no value at all) gives TEXT.
InferType(values) ==
    LET S == {v \in SeqToSet(values) : ~IsNull(v)}
    IN  IF S # {} /\ \A v \in S : IsInt(v)
        THEN (IF \E v \in SeqToSet(values) : IsNull(v) THEN "REAL" ELSE "INTEGER")
        ELSE "TEXT"

Position(s, x) == CHOOSE i \in 1..Len(s) : s[i] = x

\* One dataset row as INSERT INTO name (df.cols) VALUES (...) stores it: the
\* values go to the columns of their names, every other column gets NULL.
AlignRow(tbl, df, row) ==
    [i \in 1..Len(tbl.cols) |->
        IF tbl.cols[i].n \in SeqToSet(df.cols)
        THEN Affinity(tbl.cols[i].ty, row[Position(df.cols, tbl.cols[i].n)])
        ELSE 0]

AlignRows(tbl, df) == [k \in 1..Len(df.rows) |-> AlignRow(tbl, df, df.rows[k])]

NewTable(name, df) ==
    LET cols == [j \in 1..Len(df.cols) |->
                    [n |-> df.cols[j], ty |-> InferType(Column(df, j))]]
        empty == [name |-> name, cols |-> cols, rows |-> <<>>]
    IN  [empty EXCEPT !.rows = AlignRows(empty, df)]

\* df.to_sql(name, connector, if_exists=..., index=False).  pandas drops an
\* existing table ("replace"), creates a missing one, inserts the rows and
\* commits on the connection itself; when a statement fails (an INSERT that
\* names a column the table lacks, a CREATE TABLE with no column at all) it
\* rolls the connection back and raises.
to_sql(db, name, df, if_exists) ==
    IF Has(db.conn, name) /\ if_exists = "append"
    THEN LET tbl == Table(db.conn, name)
             i == IndexOf(db.conn, name)
         IN  IF \E j \in 1..Len(df.cols) :
                    df.cols[j] \notin {tbl.cols[k].n : k \in 1..Len(tbl.cols)}
             THEN Outcome(rollback(db), "EngineError", NoData)
             ELSE Outcome(
                    commit(ExecDML(db,
                        [db.conn EXCEPT ![i].rows = @ \o AlignRows(tbl, df)])),
                    "ok", NoData)
    ELSE LET dropped == IF Has(db.conn, name)
                        THEN ExecDDL(db, Without(db.conn, name))
                        ELSE db
         IN  IF Len(df.cols) = 0
             THEN Outcome(rollback(dropped), "EngineError", NoData)
             ELSE Outcome(
                    commit(ExecDDL(dropped,
                        Append(dropped.conn, NewTable(name, df)))),
                    "ok", NoData)

\* df.empty: an axis of length 0.
empty(df) == Len(df.cols) = 0 \/ Len(df.rows) = 0

\* pd.read_sql("SELECT * FROM name", connector) on an existing table.
read_table(db, name) ==
    LET tbl == Table(db.conn, name)
    IN  DataFrame([j \in 1..Len(tbl.cols) |-> tbl.cols[j].n], tbl.rows)

\* SELECT DISTINCT *: each distinct row once, where it first occurs.
RECURSIVE Distinct(_)
Distinct(rows) ==
    IF rows = <<>> THEN <<>>
    ELSE LET front == Distinct(SubSeq(rows, 1, Len(rows) - 1))
             last == rows[Len(rows)]
         IN  IF last \in SeqToSet(front) THEN front ELSE Append(front, last)

\* ----------------------------------------------------------------- handler
\* The property `tables`: the names in sqlite_master, as the connection sees
\* them.
tables(db) == tablesOf(db.conn)

\* exec_query_to_dataframe("SELECT DISTINCT * FROM name").
exec_query_to_dataframe(db, name) ==
    LET df == read_table(db, name)
    IN  DataFrame(df.cols, Distinct(df.rows))

Select(name) == [kind |-> "SELECT", name |-> name, row |-> <<>>]
Insert(name, row) == [kind |-> "INSERT", name |-> name, row |-> row]

\* exec_query(query): cursor.execute and fetchall, with no commit.  The
\* queries are "SELECT * FROM name" and "INSERT INTO name VALUES (row)".
exec_query(db, q) ==
    IF ~Has(db.conn, q.name)
    THEN Outcome(db, "EngineError", NoData)
    ELSE LET tbl == Table(db.conn, q.name)
             i == IndexOf(db.conn, q.name)
         IN  CASE q.kind = "SELECT" -> Outcome(db, "ok", DataFrame(<<>>, tbl.rows))
               [] q.kind = "INSERT" ->
                    IF Len(q.row) # Len(tbl.cols)
                    THEN Outcome(db, "EngineError", NoData)
                    ELSE Outcome(
                           ExecDML(db, [db.conn EXCEPT
                               ![i].rows = Append(@, StoreRow(tbl.cols, q.row))]),
                           "ok", NoData)

\* CREATE TABLE after DROP TABLE IF EXISTS in place of CREATE TABLE IF NOT
\* EXISTS: an existing table is replaced by an empty one.
create_table_Replace(db, table_name, columns_dict) ==
    LET columns == [j \in 1..Len(columns_dict) |->
                       [n |-> columns_dict[j].n, ty |-> type_dict(columns_dict[j].ty)]]
        created == Append(Without(db.conn, table_name),
                       [name |-> table_name, cols |-> columns, rows |-> <<>>])
    IN  Outcome(commit(ExecDDL(db, created)), "ok", NoData)

create_table(db, table_name, columns_dict) ==
    LET columns == [j \in 1..Len(columns_dict) |->
                       [n |-> columns_dict[j].n, ty |-> type_dict(columns_dict[j].ty)]]
        created == IF Has(db.conn, table_name)
                   THEN db.conn
                   ELSE Append(db.conn,
                            [name |-> table_name, cols |-> columns, rows |-> <<>>])
    IN  Outcome(commit(ExecDDL(db, created)), "ok", NoData)

\* if_exists="append" in place of "replace".
create_table_from_dataframe_Append(db, table_name, df) ==
    LET r == to_sql(db, table_name, df, "append")
    IN  IF r.result = "ok" THEN Outcome(commit(r.db), "ok", NoData) ELSE r

create_table_from_dataframe(db, table_name, df) ==
    LET r == to_sql(db, table_name, df, "replace")
    IN  IF r.result = "ok" THEN Outcome(commit(r.db), "ok", NoData) ELSE r

\* The table created anew under the new name and the old one dropped, its rows
\* not copied.
rename_table_Recreate(db, from_, to_) ==
    IF from_ \notin SeqToSet(tables(db))
    THEN Outcome(db, "TableNotFoundError", NoData)
    ELSE IF Has(db.conn, to_)
    THEN Outcome(db, "EngineError", NoData)
    ELSE Outcome(
           commit(ExecDDL(db,
               [db.conn EXCEPT ![IndexOf(db.conn, from_)] =
                   [name |-> to_, cols |-> @.cols, rows |-> <<>>]])),
           "ok", NoData)

rename_table(db, from_, to_) ==
    IF from_ \notin SeqToSet(tables(db))
    THEN Outcome(db, "TableNotFoundError", NoData)
    ELSE IF Has(db.conn, to_)
    THEN Outcome(db, "EngineError", NoData)
    ELSE Outcome(
           commit(ExecDDL(db,
               [db.conn EXCEPT ![IndexOf(db.conn, from_)].name = to_])),
           "ok", NoData)

delete_duplicated(db, table_name) ==
    IF table_name \notin SeqToSet(tables(db))
    THEN Outcome(db, "TableNotFoundError", NoData)
    ELSE create_table_from_dataframe(db, table_name,
             exec_query_to_dataframe(db, table_name))

\* DELETE FROM in place of DROP TABLE: the rows go, the table stays.
delete_table_RowsOnly(db, table_name) ==
    IF table_name \notin SeqToSet(tables(db))
    THEN Outcome(db, "TableNotFoundError", NoData)
    ELSE Outcome(
           commit(ExecDML(db,
               [db.conn EXCEPT ![IndexOf(db.conn, table_name)].rows = <<>>])),
           "ok", NoData)

delete_table(db, table_name) ==
    IF table_name \notin SeqToSet(tables(db))
    THEN Outcome(db, "TableNotFoundError", NoData)
    ELSE Outcome(commit(ExecDDL(db, Without(db.conn, table_name))), "ok", NoData)

fetchall(db, table_name) ==
    IF table_name \notin SeqToSet(tables(db))
    THEN Outcome(db, "TableNotFoundError", NoData)
    ELSE exec_query(db, Select(table_name))

fetchall_to_dataframe(db, table_name) ==
    IF table_name \notin SeqToSet(tables(db))
    THEN Outcome(db, "TableNotFoundError", NoData)
    ELSE Outcome(db, "ok", read_table(db, table_name))

\* cursor.executemany(query, values): the statement is prepared for the arity
\* of the first row (a table of another arity fails there, before anything is
\* written); then the rows are bound and stepped one by one, in a transaction
\* opened for the statement, and a row of another arity stops the loop with
\* an error, the rows before it written and the transaction left open.
\* cursor.execute(query, values[0]) in place of executemany: one row written.
executemany_FirstOnly(db, table_name, values) ==
    LET tbl == Table(db.conn, table_name)
        i == IndexOf(db.conn, table_name)
    IN  IF Len(values[1]) # Len(tbl.cols)
        THEN Outcome(db, "EngineError", NoData)
        ELSE Outcome(
               ExecDML(db, [db.conn EXCEPT
                   ![i].rows = Append(@, StoreRow(tbl.cols, values[1]))]),
               "ok", NoData)

executemany(db, table_name, values) ==
    LET tbl == Table(db.conn, table_name)
        i == IndexOf(db.conn, table_name)
        n_columns == Len(values[1])
        bad == {k \in 1..Len(values) : Len(values[k]) # n_columns}
        good == IF bad = {} THEN Len(values)
                ELSE (CHOOSE k \in bad : \A m \in bad : k <= m) - 1
        written == [k \in 1..good |-> StoreRow(tbl.cols, values[k])]
    IN  IF n_columns # Len(tbl.cols)
        THEN Outcome(db, "EngineError", NoData)
        ELSE Outcome(ExecDML(db, [db.conn EXCEPT ![i].rows = @ \o written]),
                     IF bad = {} THEN "ok" ELSE "EngineError", NoData)

\* The two checks in the other order: the payload before the table.
insert_records_EmptyFirst(db, table_name, values) ==
    IF Len(values) = 0
    THEN Outcome(db, "ValueError", NoData)
    ELSE IF table_name \notin SeqToSet(tables(db))
    THEN Outcome(db, "TableNotFoundError", NoData)
    ELSE LET r == executemany(db, table_name, values)
         IN  IF r.result = "ok" THEN Outcome(commit(r.db), "ok", NoData) ELSE r

insert_records(db, table_name, values) ==
    IF table_name \notin SeqToSet(tables(db))
    THEN Outcome(db, "TableNotFoundError", NoData)
    ELSE IF Len(values) = 0
    THEN Outcome(db, "ValueError", NoData)
    ELSE LET r == executemany(db, table_name, values)
         IN  IF r.result = "ok" THEN Outcome(commit(r.db), "ok", NoData) ELSE r

\* The df.empty check left out.
insert_records_from_dataframe_NoEmptyCheck(db, table_name, df) ==
    IF table_name \notin SeqToSet(tables(db))
    THEN Outcome(db, "TableNotFoundError", NoData)
    ELSE LET r == to_sql(db, table_name, df, "append")
         IN  IF r.result = "ok" THEN Outcome(commit(r.db), "ok", NoData) ELSE r

insert_records_from_dataframe(db, table_name, df) ==
    IF table_name \notin SeqToSet(tables(db))
    THEN Outcome(db, "TableNotFoundError", NoData)
    ELSE IF empty(df)
    THEN Outcome(db, "ValueError", NoData)
    ELSE LET r == to_sql(db, table_name, df, "append")
         IN  IF r.result = "ok" THEN Outcome(commit(r.db), "ok", NoData) ELSE r

\* ------------------------------------------------------------------ inputs
\* columns_dict values a caller passes to create_table (name -> Python type).
Col(n, ty) == [n |-> n, ty |-> ty]
ColumnsDicts == { <<Col("id", "int")>>, <<Col("id", "str")>> }

\* Lists of rows a caller passes to insert_records: the lists of rows of one
\* value, and the row (1, "a") of two, alone or after a row of one.
ValueLists == RowLists \cup { <<<<1, 20>>>>, <<<<1>>, <<1, 20>>>> }

\* Datasets a caller passes to create_table_from_dataframe: pd.DataFrame()
\* and the datasets of one column "id".
NewDataFrames == {NoData} \cup {DataFrame(<<"id">>, rows) : rows \in RowLists}

\* Datasets a caller passes to insert_records_from_dataframe: those, and one
\* whose column is named "name".
DataFrames == NewDataFrames \cup {DataFrame(<<"name">>, <<<<1>>>>)}

\* Queries a caller passes to exec_query.
Queries == {Insert(name, <<1>>) : name \in Names}

\* ------------------------------------------------------------------- state
NoQuery == [kind |-> "", name |-> "", row |-> <<>>]
Call(op, name) ==
    [op |-> op, name |-> name, to |-> "", columns_dict |-> <<>>,
     values |-> <<>>, df |-> NoData, query |-> NoQuery]

Now == Db(conn, disk, inTxn)

RECURSIVE TotalRows(_)
TotalRows(c) == IF c = <<>> THEN 0 ELSE Len(Head(c).rows) + TotalRows(Tail(c))

\* The call `c` returns `r`: the store becomes r.db, and the call and what it
\* returned are recorded.
Return(c, r) ==
    /\ conn' = r.db.conn
    /\ disk' = r.db.disk
    /\ inTxn' = r.db.inTxn
    /\ call' = c
    /\ result' = r.result
    /\ ret' = r.ret

Init ==
    /\ conn = <<>>
    /\ disk = <<>>
    /\ inTxn = FALSE
    /\ call = Call("__init__", "")
    /\ result = "ok"
    /\ ret = NoData

ExecQuery(Qs) ==
    \E q \in Qs :
        /\ TotalRows(conn) < MaxRows
        /\ Return([Call("exec_query", q.name) EXCEPT !.query = q],
                  exec_query(Now, q))

CreateTable(NS, CDs) ==
    \E name \in NS, cd \in CDs :
        Return([Call("create_table", name) EXCEPT !.columns_dict = cd],
               create_table(Now, name, cd))

CreateTableFromDataframe(NS, DFs) ==
    \E name \in NS, df \in DFs :
        /\ TotalRows(Without(conn, name)) + Len(df.rows) <= MaxRows
        /\ Return([Call("create_table_from_dataframe", name) EXCEPT !.df = df],
                  create_table_from_dataframe(Now, name, df))

RenameTable(NS) ==
    \E from_ \in NS, to_ \in NS :
        Return([Call("rename_table", from_) EXCEPT !.to = to_],
               rename_table(Now, from_, to_))

DeleteDuplicated(NS) ==
    \E name \in NS :
        Return(Call("delete_duplicated", name), delete_duplicated(Now, name))

DeleteTable(NS) ==
    \E name \in NS :
        Return(Call("delete_table", name), delete_table(Now, name))

Fetchall(NS) ==
    \E name \in NS :
        Return(Call("fetchall", name), fetchall(Now, name))

FetchallToDataframe(NS) ==
    \E name \in NS :
        Return(Call("fetchall_to_dataframe", name),
               fetchall_to_dataframe(Now, name))

InsertRecords(NS, VLs) ==
    \E name \in NS, values \in VLs :
        /\ TotalRows(conn) + Len(values) <= MaxRows
        /\ Return([Call("insert_records", name) EXCEPT !.values = values],
                  insert_records(Now, name, values))

InsertRecordsFromDataframe(NS, DFs) ==
    \E name \in NS, df \in DFs :
        /\ TotalRows(conn) + Len(df.rows) <= MaxRows
        /\ Return([Call("insert_records_from_dataframe", name) EXCEPT !.df = df],
                  insert_records_from_dataframe(Now, name, df))

\* One handle, used by one caller: any public method, with any input.
Next ==
    \/ ExecQuery(Queries)
    \/ CreateTable(Names, ColumnsDicts)
    \/ CreateTableFromDataframe(Names, NewDataFrames)
    \/ RenameTable(Names)
    \/ DeleteDuplicated(Names)
    \/ DeleteTable(Names)
    \/ Fetchall(Names)
    \/ FetchallToDataframe(Names)
    \/ InsertRecords(Names, ValueLists)
    \/ InsertRecordsFromDataframe(Names, DataFrames)

Spec == Init /\ [][Next]_vars

\* The same handle over three table names, with one column type and rows
\* passed one at a time: renaming needs a third name for a bystander table.
Names3 == {"t", "u", "v"}

NextWide ==
    \/ CreateTable(Names3, {<<Col("id", "int")>>})
    \/ InsertRecords(Names3, {<<<<1>>>>, <<<<20>>>>})
    \/ RenameTable(Names3)
    \/ DeleteTable(Names3)
    \/ Fetchall(Names3)

SpecWide == Init /\ [][NextWide]_vars

\* ------------------------------------------------------------------ claims
\* The methods that target an existing table, and those that change the store.
TableOps ==
    {"rename_table", "delete_duplicated", "delete_table", "fetchall",
     "fetchall_to_dataframe", "insert_records", "insert_records_from_dataframe"}
Mutating ==
    {"create_table", "create_table_from_dataframe", "rename_table",
     "delete_table", "insert_records", "insert_records_from_dataframe",
     "delete_duplicated"}

Listed(c, name) == \E i \in 1..Len(c) : c[i].name = name
Occurrences(c, name) == Cardinality({i \in 1..Len(c) : c[i].name = name})
RowsOf(c, name) == c[CHOOSE i \in 1..Len(c) : c[i].name = name].rows
ColsOf(c, name) == c[CHOOSE i \in 1..Len(c) : c[i].name = name].cols
ColNamesOf(c, name) == [j \in 1..Len(ColsOf(c, name)) |-> ColsOf(c, name)[j].n]
Untouched == conn' = conn /\ disk' = disk /\ inTxn' = inTxn

C2_CreateIdempotent ==
    [][ call'.op = "create_table"
            => /\ result' = "ok"
               /\ Occurrences(conn', call'.name) = 1
               /\ Listed(conn, call'.name) => conn' = conn ]_vars

\* create_table has returned on a table that holds rows (so it existed
\* before) and whose column type is not the one the call asked for.
C2_Witness ==
    /\ call.op = "create_table"
    /\ result = "ok"
    /\ Listed(conn, call.name)
    /\ RowsOf(conn, call.name) # <<>>
    /\ ColsOf(conn, call.name)[1].ty # type_dict(call.columns_dict[1].ty)

\* C3: on a table that exists, insert_records with an empty list and
\* insert_records_from_dataframe with a dataset of no rows fail with
\* ValueError and leave the table's rows and the catalog unchanged.
C3_EmptyInputFails ==
    [][ ( /\ Listed(conn, call'.name)
          /\ \/ call'.op = "insert_records" /\ call'.values = <<>>
             \/ call'.op = "insert_records_from_dataframe"
                    /\ call'.df.rows = <<>> )
            => (result' = "ValueError" /\ Untouched) ]_vars

\* insert_records_from_dataframe with a dataset of one column and no rows has
\* failed with ValueError on a table that holds rows.
C3_Witness ==
    /\ call.op = "insert_records_from_dataframe"
    /\ call.df = DataFrame(<<"id">>, <<>>)
    /\ result = "ValueError"
    /\ Listed(conn, call.name)
    /\ RowsOf(conn, call.name) # <<>>

Storable(df) ==
    /\ Len(df.cols) > 0
    /\ \A j \in 1..Len(df.cols) :
          \/ \A k \in 1..Len(df.rows) : IsInt(df.rows[k][j])
          \/ \A k \in 1..Len(df.rows) : ~IsInt(df.rows[k][j])

C5_DedupKeepsEachRowOnce ==
    [][ (call'.op = "delete_duplicated" /\ Listed(conn, call'.name))
            => /\ result' = "ok"
               /\ Listed(conn', call'.name)
               /\ SeqToSet(RowsOf(conn', call'.name))
                      = SeqToSet(RowsOf(conn, call'.name))
               /\ \A r \in SeqToSet(RowsOf(conn', call'.name)) :
                      Count(RowsOf(conn', call'.name), r) = 1 ]_vars

\* C6 as claimed: insert_records(t, N) with a non-empty N whose rows all have
\* t's arity (and insert_records_from_dataframe with a dataset of t's columns
\* holding N) leaves t with its former rows followed by the rows of N.
Appended ==
    /\ result' = "ok"
    /\ RowsOf(conn', call'.name) = RowsOf(conn, call'.name) \o
           (IF call'.op = "insert_records" THEN call'.values ELSE call'.df.rows)

InsertsMatching ==
    /\ Listed(conn, call'.name)
    /\ \/ /\ call'.op = "insert_records"
          /\ call'.values # <<>>
          /\ \A k \in 1..Len(call'.values) :
                Len(call'.values[k]) = Len(ColsOf(conn, call'.name))
       \/ /\ call'.op = "insert_records_from_dataframe"
          /\ call'.df.rows # <<>>
          /\ call'.df.cols = ColNamesOf(conn, call'.name)

C6_InsertAppendsAnyValues == [][ InsertsMatching => Appended ]_vars

\* A value its column stores as it is: no number for a TEXT column, no text
\* of digits for an INTEGER or REAL column.
StoredAsGiven(ty, v) ==
    /\ ~(ty = "TEXT" /\ IsInt(v))
    /\ ~(ty \in {"INTEGER", "REAL"} /\ IsDigitText(v))

AllStoredAsGiven(cols, rows) ==
    \A k \in 1..Len(rows) : \A j \in 1..Len(cols) :
        StoredAsGiven(cols[j].ty, rows[k][j])

\* C6, amended: the same, for rows N none of whose values the column's
\* declared type converts (no number for a TEXT column, no numeric text for an
\* INTEGER or REAL column): t then holds its former rows, unchanged and in
\* order, followed by the rows of N in the order given.
C6_InsertAppends ==
    [][ ( /\ InsertsMatching
          /\ AllStoredAsGiven(ColsOf(conn, call'.name),
                 IF call'.op = "insert_records"
                 THEN call'.values ELSE call'.df.rows) )
            => Appended ]_vars

\* insert_records has added two different rows to a table that held a row.
C6_Witness ==
    /\ call.op = "insert_records"
    /\ result = "ok"
    /\ Len(call.values) = 2
    /\ call.values[1] # call.values[2]
    /\ RowsOf(conn, call.name) = <<RowsOf(conn, call.name)[1]>> \o call.values

RenamedBack(db) ==
    \A a \in Names3, b \in Names3 :
        (Listed(db.conn, a) /\ ~Listed(db.conn, b)) =>
            LET there == rename_table(db, a, b)
                back == rename_table(there.db, b, a)
            IN  /\ there.result = "ok"
                /\ back.result = "ok"
                /\ back.db.conn = db.conn

C8_RenameMovesTable ==
    [][ /\ ( /\ call'.op = "rename_table"
             /\ Listed(conn, call'.name)
             /\ ~Listed(conn, call'.to) )
            => /\ result' = "ok"
               /\ ~Listed(conn', call'.name)
               /\ Occurrences(conn', call'.to) = 1
               /\ ColsOf(conn', call'.to) = ColsOf(conn, call'.name)
               /\ RowsOf(conn', call'.to) = RowsOf(conn, call'.name)
               /\ Len(conn') = Len(conn)
               /\ \A n \in Names3 \ {call'.name, call'.to} :
                     Listed(conn, n) =>
                        /\ Listed(conn', n)
                        /\ RowsOf(conn', n) = RowsOf(conn, n)
                        /\ ColsOf(conn', n) = ColsOf(conn, n)
        /\ RenamedBack(Now) ]_vars

\* rename_table has renamed a table that holds rows while another table,
\* which holds rows too, stands by.
C8_Witness ==
    /\ call.op = "rename_table"
    /\ result = "ok"
    /\ Len(conn) = 2
    /\ RowsOf(conn, call.to) # <<>>
    /\ \A i \in 1..2 : conn[i].rows # <<>>

\* C9: a mutating method that fails leaves none of its changes in the store:
\* the connection still sees what it saw (or, rolled back, what is committed)
\* and the committed file is as it was.
C9_AllOrNothing ==
    [][ (call'.op \in Mutating /\ result' # "ok")
            => (conn' \in {conn, disk} /\ disk' = disk) ]_vars

\* C10 as claimed: a mutating method that returns has committed, and its
\* commit made durable its own changes only: nothing an earlier call changed
\* was still uncommitted when it was called.
C10_CommitsOwnChangesOnly ==
    [][ (call'.op \in Mutating /\ result' = "ok")
            => (disk' = conn' /\ ~inTxn' /\ conn = disk) ]_vars

\* C10, amended: a mutating method that returns has committed: the committed
\* file holds what the connection sees and no transaction is open (its commit
\* also makes durable what earlier calls left uncommitted: the rows of an
\* exec_query INSERT, the rows a failed insert_records wrote).
C10_CommitsOnReturn ==
    [][ (call'.op \in Mutating /\ result' = "ok")
            => (disk' = conn' /\ ~inTxn') ]_vars

\* insert_records_from_dataframe has returned and the two rows it added are
\* committed.
C10_Witness ==
    /\ call.op = "insert_records_from_dataframe"
    /\ result = "ok"
    /\ Len(call.df.rows) = 2
    /\ ~inTxn
    /\ Listed(disk, call.name)
    /\ Len(RowsOf(disk, call.name)) >= 2

====
